---- MODULE Spec2Model ----
(***************************************************************************)
(* State-machine model of the qualitative actor QActor (src/src/qactor.py) *)
(* and of the QModel implementations it is constructed with.               *)
(*                                                                         *)
(* Numbers: Python floats are modelled as exact rationals <<n, d>> in      *)
(* lowest terms with d > 0; math.sqrt is modelled as the root rounded to   *)
(* the nearest multiple of 2^-SqrtBits.  A division by zero yields the     *)
(* marker ZeroDivision (denominator 0), which every operation propagates.  *)
(***************************************************************************)
EXTENDS Integers, Sequences, FiniteSets, TLC

\* ---------------------------------------------------------------- bounds
MaxPos == 2
MaxDt == 2
MaxSteps == 3
SqrtBits == 6

\* ------------------------------------------------------------- rationals
Abs(n) == IF n < 0 THEN -n ELSE n

RECURSIVE GCD(_, _)
GCD(a, b) == IF b = 0 THEN a ELSE GCD(b, a % b)

ZeroDivision == <<1, 0>>

Norm(n, d) ==
    IF d = 0 THEN ZeroDivision
    ELSE LET s == IF d < 0 THEN -1 ELSE 1
             g == GCD(Abs(n), Abs(d))
         IN  <<(s * n) \div g, (s * d) \div g>>

R(n) == <<n, 1>>
RAdd(p, q) == Norm(p[1] * q[2] + q[1] * p[2], p[2] * q[2])
RNeg(p) == <<-p[1], p[2]>>
RSub(p, q) == RAdd(p, RNeg(q))
RMul(p, q) == Norm(p[1] * q[1], p[2] * q[2])
RDiv(p, q) == IF q[1] = 0 THEN ZeroDivision ELSE Norm(p[1] * q[2], p[2] * q[1])
RAbs(p) == <<Abs(p[1]), p[2]>>
RLt(p, q) == p[1] * q[2] < q[1] * p[2]
RLe(p, q) == p[1] * q[2] <= q[1] * p[2]
RIsZero(p) == p[1] = 0 /\ p[2] # 0

RECURSIVE Pow2(_)
Pow2(k) == IF k = 0 THEN 1 ELSE 2 * Pow2(k - 1)

\* floor of the square root of a natural number, by bisection on lo..hi
RECURSIVE ISqrtIn(_, _, _)
ISqrtIn(m, lo, hi) ==
    IF lo = hi THEN lo
    ELSE LET mid == (lo + hi + 1) \div 2
         IN  IF mid * mid <= m THEN ISqrtIn(m, mid, hi) ELSE ISqrtIn(m, lo, mid - 1)

\* 46340 is the largest root whose square is a 32-bit integer
ISqrt(m) == ISqrtIn(m, 0, IF m < 46340 THEN m ELSE 46340)

\* math.sqrt: the root of p >= 0 rounded to the nearest multiple of 2^-SqrtBits
Sqrt(p) ==
    IF p[2] = 0 \/ p[1] < 0 THEN ZeroDivision
    ELSE LET S == Pow2(SqrtBits)
             twice == ISqrt((4 * S * S * p[1]) \div p[2])
         IN  Norm((twice + 1) \div 2, S)

\* ---------------------------------------------------------- dictionaries
EmptyDict == <<>>
Get(m, k, default) == IF k \in DOMAIN m THEN m[k] ELSE default
Put(m, k, val) == [z \in (DOMAIN m) \cup {k} |-> IF z = k THEN val ELSE m[z]]

\* ------------------------------------------------------------------ state
Variables == {"x", "v"}
PosValues == 0..MaxPos
DtValues == (-1)..MaxDt

VARIABLES
    model,
    current_x, current_v, current_a,
    max_v_pos, max_v_neg, max_a_pos, max_a_neg,
    prevOp, lastOp, raised, lastDt, dtValid, lastTarget, ret, seen, steps

estimator == <<current_x, current_v, current_a,
               max_v_pos, max_v_neg, max_a_pos, max_a_neg>>
history == <<prevOp, lastOp, raised, lastDt, dtValid, lastTarget, ret, seen, steps>>
vars == <<model, estimator, history>>

\* the estimator's seven dictionaries as one record, with the progress of a call
Est == [x |-> current_x, v |-> current_v, a |-> current_a,
        vp |-> max_v_pos, vn |-> max_v_neg, ap |-> max_a_pos, an |-> max_a_neg,
        err |-> FALSE, done |-> 0]

NoAction == [none |-> 0]
Seen0 == [z \in Variables |-> 0]

\* ---------------------------------------------------------------- observe
\* UpdateExtremum storing every non-zero sample, larger or not
UpdateExtremum_overwrite(mpos, mneg, variable, val) ==
    IF RIsZero(val) THEN <<mpos, mneg>>
    ELSE IF RLt(R(0), val) THEN <<Put(mpos, variable, RAbs(val)), mneg>>
    ELSE <<mpos, Put(mneg, variable, RAbs(val))>>

\* UpdateExtremum keeping the first sample of each sign for good
UpdateExtremum_keepFirst(mpos, mneg, variable, val) ==
    IF RIsZero(val) THEN <<mpos, mneg>>
    ELSE IF RLt(R(0), val)
    THEN <<IF variable \in DOMAIN mpos THEN mpos ELSE Put(mpos, variable, RAbs(val)), mneg>>
    ELSE <<mpos, IF variable \in DOMAIN mneg THEN mneg ELSE Put(mneg, variable, RAbs(val))>>

\* UpdateExtremum without the tests of lines 53 and 66: a zero sample is stored
UpdateExtremum_storeZero(mpos, mneg, variable, val) ==
    LET pos == RLt(R(0), val)
        m == IF pos THEN mpos ELSE mneg
        m2 == IF variable \in DOMAIN m
              THEN IF RLt(m[variable], RAbs(val)) THEN Put(m, variable, RAbs(val)) ELSE m
              ELSE Put(m, variable, RAbs(val))
    IN  IF pos THEN <<m2, mneg>> ELSE <<mpos, m2>>

\* qactor.py 53-59 and 66-72: the signed running maximum, <<max_pos, max_neg>>
UpdateExtremum(mpos, mneg, variable, val) ==
    IF RIsZero(val) THEN <<mpos, mneg>>
    ELSE LET pos == RLt(R(0), val)
             m == IF pos THEN mpos ELSE mneg
             m2 == IF variable \in DOMAIN m
                   THEN IF RLt(m[variable], RAbs(val)) THEN Put(m, variable, RAbs(val)) ELSE m
                   ELSE Put(m, variable, RAbs(val))
         IN  IF pos THEN <<m2, mneg>> ELSE <<mpos, m2>>

\* qactor.py 40-72: the iteration for a variable whose previous position is x0
\* and dt # 0: velocity, acceleration when a previous velocity exists, extrema
ObserveKnown(e, variable, x0, xi, dt) ==
    LET vel == RDiv(RSub(R(xi), x0), R(dt))
        mv == UpdateExtremum(e.vp, e.vn, variable, vel)
        e1 == [e EXCEPT !.x = Put(e.x, variable, R(xi)),
                        !.v = Put(e.v, variable, vel),
                        !.vp = mv[1], !.vn = mv[2]]
    IN  IF variable \notin DOMAIN e.v THEN e1
        ELSE LET acl == RDiv(RSub(vel, e.v[variable]), R(dt))
                 ma == UpdateExtremum(e.ap, e.an, variable, acl)
             IN  [e1 EXCEPT !.a = Put(e.a, variable, acl),
                            !.ap = ma[1], !.an = ma[2]]

\* ObserveVariable taking 0 for the previous position of a variable never seen
ObserveVariable_fromZero(e, variable, xi, dt) ==
    IF dt = 0 THEN [e EXCEPT !.err = TRUE]
    ELSE ObserveKnown(e, variable, Get(e.x, variable, R(0)), xi, dt)

\* qactor.py 35-72: one iteration of the loop over numerical_state.
\* The result has the field err set when the iteration raises ZeroDivisionError
\* (line 42), which happens before anything is stored for the variable.
ObserveVariable(e, variable, xi, dt) ==
    IF variable \notin DOMAIN e.x THEN [e EXCEPT !.x = Put(e.x, variable, R(xi))]
    ELSE IF dt = 0 THEN [e EXCEPT !.err = TRUE]
    ELSE ObserveKnown(e, variable, e.x[variable], xi, dt)

\* qactor.py 34: the loop, in the dictionary's iteration order; done counts the
\* iterations that completed
RECURSIVE ObserveLoop(_, _, _)
ObserveLoop(e, numerical_state, dt) ==
    IF numerical_state = <<>> \/ e.err THEN e
    ELSE LET item == Head(numerical_state)
             e1 == ObserveVariable(e, item[1], item[2], dt)
         IN  IF e1.err THEN e1
             ELSE ObserveLoop([e1 EXCEPT !.done = e.done + 1], Tail(numerical_state), dt)

\* the dictionaries over Variables, as the sequence of their items in iteration
\* order; a dictionary with both variables lists x first
NumericalStates ==
    {<<>>}
    \cup {<<<<z, p>>>> : z \in Variables, p \in PosValues}
    \cup {<<<<"x", p1>>, <<"v", p2>>>> : p1 \in PosValues, p2 \in PosValues}

Keys(numerical_state, n) == {numerical_state[i][1] : i \in 1..n}

Min(a, b) == IF a < b THEN a ELSE b

SetEstimator(e) ==
    /\ current_x' = e.x
    /\ current_v' = e.v
    /\ current_a' = e.a
    /\ max_v_pos' = e.vp
    /\ max_v_neg' = e.vn
    /\ max_a_pos' = e.ap
    /\ max_a_neg' = e.an

observe(numerical_state, dt) ==
    /\ steps < MaxSteps
    /\ \E e \in {ObserveLoop(Est, numerical_state, dt)} :
           /\ SetEstimator(e)
           /\ raised' = e.err
           /\ seen' = [z \in Variables |->
                         IF z \in Keys(numerical_state, e.done)
                         THEN Min(seen[z] + 1, 3) ELSE seen[z]]
    /\ prevOp' = lastOp
    /\ lastOp' = "observe"
    /\ lastDt' = dt
    /\ dtValid' = (dtValid /\ dt > 0)
    /\ lastTarget' = EmptyDict
    /\ ret' = NoAction
    /\ steps' = steps + 1
    /\ UNCHANGED model

\* qactor.py 12-20
reset ==
    /\ current_x' = EmptyDict
    /\ current_v' = EmptyDict
    /\ current_a' = EmptyDict
    /\ max_v_pos' = EmptyDict
    /\ max_v_neg' = EmptyDict
    /\ max_a_pos' = EmptyDict
    /\ max_a_neg' = EmptyDict
    /\ prevOp' = lastOp
    /\ lastOp' = "reset"
    /\ raised' = FALSE
    /\ lastDt' = 1
    /\ dtValid' = TRUE
    /\ lastTarget' = EmptyDict
    /\ ret' = NoAction
    /\ seen' = Seen0
    /\ UNCHANGED <<model, steps>>

\* restart leaving the velocities and accelerations in place
restart_keepsVelocity ==
    /\ current_x' = EmptyDict
    /\ UNCHANGED <<current_v, current_a, max_v_pos, max_v_neg, max_a_pos, max_a_neg>>
    /\ prevOp' = lastOp
    /\ lastOp' = "restart"
    /\ raised' = FALSE
    /\ lastDt' = 1
    /\ lastTarget' = EmptyDict
    /\ ret' = NoAction
    /\ seen' = Seen0
    /\ UNCHANGED <<model, dtValid, steps>>

\* restart clearing the learned velocity extrema as well
restart_clearsExtrema ==
    /\ current_x' = EmptyDict
    /\ current_v' = EmptyDict
    /\ current_a' = EmptyDict
    /\ max_v_pos' = EmptyDict
    /\ max_v_neg' = EmptyDict
    /\ UNCHANGED <<max_a_pos, max_a_neg>>
    /\ prevOp' = lastOp
    /\ lastOp' = "restart"
    /\ raised' = FALSE
    /\ lastDt' = 1
    /\ lastTarget' = EmptyDict
    /\ ret' = NoAction
    /\ seen' = Seen0
    /\ UNCHANGED <<model, dtValid, steps>>

\* qactor.py 25-28
restart ==
    /\ current_x' = EmptyDict
    /\ current_v' = EmptyDict
    /\ current_a' = EmptyDict
    /\ UNCHANGED <<max_v_pos, max_v_neg, max_a_pos, max_a_neg>>
    /\ prevOp' = lastOp
    /\ lastOp' = "restart"
    /\ raised' = FALSE
    /\ lastDt' = 1
    /\ lastTarget' = EmptyDict
    /\ ret' = NoAction
    /\ seen' = Seen0
    /\ UNCHANGED <<model, dtValid, steps>>

\* -------------------------------------------------------------------- eta
\* qactor.py 134-161
RECURSIVE time_to_goal(_, _, _, _, _)
time_to_goal(dist, v0, v1, acc, dcc) ==
    IF RLe(R(0), v0)
    THEN LET vx == Sqrt(RAdd(RMul(v0, v0), RMul(R(2), RMul(acc, dist))))
         IN  IF RLe(vx, v1)
             THEN RDiv(RSub(vx, v0), acc)
             ELSE LET s == RDiv(RSub(RMul(v1, v1), RMul(v0, v0)), RMul(R(2), acc))
                  IN  RAdd(RDiv(RSub(v1, v0), acc), RDiv(RSub(dist, s), v1))
    ELSE LET s == RDiv(RMul(v0, v0), RMul(R(2), acc))
         IN  RAdd(RDiv(RNeg(v0), acc), time_to_goal(RAdd(dist, s), R(0), v1, acc, dcc))

\* qactor.py 113-118: the arguments eta reads from the estimator
EtaV0(variable) == Get(current_v, variable, R(0))
EtaV1Pos(variable) == Get(max_v_pos, variable, R(1))
EtaV1Neg(variable) == Get(max_v_neg, variable, R(1))
EtaAcc(variable) == Get(max_a_pos, variable, R(1))
EtaDcc(variable) == Get(max_a_neg, variable, R(1))

\* eta without the case of line 132: a zero distance is solved like a positive one
eta_noZeroCase(variable, x1) ==
    LET dist == RSub(R(x1), current_x[variable])
    IN  IF RLe(R(0), dist)
        THEN time_to_goal(dist, EtaV0(variable), EtaV1Pos(variable),
                          EtaAcc(variable), EtaDcc(variable))
        ELSE time_to_goal(RNeg(dist), RNeg(EtaV0(variable)), EtaV1Neg(variable),
                          EtaDcc(variable), EtaAcc(variable))

\* qactor.py 111-132; x1 is an integer target value
eta(variable, x1) ==
    LET dist == RSub(R(x1), current_x[variable])
    IN  IF RLt(R(0), dist)
        THEN time_to_goal(dist, EtaV0(variable), EtaV1Pos(variable),
                          EtaAcc(variable), EtaDcc(variable))
        ELSE IF RLt(dist, R(0))
        THEN time_to_goal(RNeg(dist), RNeg(EtaV0(variable)), EtaV1Neg(variable),
                          EtaDcc(variable), EtaAcc(variable))
        ELSE R(0)

\* ----------------------------------------------------------------- models
\* A QModel implementation is tabulated as the list actions() returns, each
\* action paired with effect(action).

\* qmodel.py: the base class enumerates no action
QModel == <<>>

\* example_cart.py 28-50
CartModel ==
    << [action |-> [F |-> -1], effect |-> [x |-> -1, v |-> -1]],
       [action |-> [F |-> 0], effect |-> [x |-> 0, v |-> 0]],
       [action |-> [F |-> 1], effect |-> [x |-> 1, v |-> 1]] >>

\* example_lander.py 33-45: ax = M-,+(m1, m3)
LanderAx(m1, m3) ==
    IF m1 = 0 /\ m3 = 0 THEN 0
    ELSE IF m1 = 0 THEN m3
    ELSE IF m3 = 0 THEN -m1
    ELSE IF m1 < 0 /\ m3 > 0 THEN 1
    ELSE IF m1 > 0 /\ m3 < 0 THEN -1
    ELSE -2

\* the lander's side engines acting on x and its velocity, with the joint
\* firing enumerated as well (its effect is non-deterministic)
LanderEntry(m1, m3) ==
    [action |-> [m1 |-> m1, m3 |-> m3],
     effect |-> [x |-> LanderAx(m1, m3), v |-> LanderAx(m1, m3)]]

LanderModel == <<LanderEntry(0, 0), LanderEntry(1, 0), LanderEntry(0, 1), LanderEntry(1, 1)>>

\* a model whose two channels drive x and v independently
SplitEntry(F, G) == [action |-> [F |-> F, G |-> G], effect |-> [x |-> F, v |-> G]]

SplitModel == <<SplitEntry(1, -1), SplitEntry(-1, 1), SplitEntry(0, 0), SplitEntry(1, 1)>>

Models == {QModel, CartModel, LanderModel, SplitModel}

\* -------------------------------------------------------------------- act
TargetValues == 0..MaxPos
Targets == UNION {[D -> TargetValues] : D \in SUBSET Variables}

\* math.copysign(1, d); zs is the sign of a zero difference
DesiredDirection(d, zs) == IF RLt(R(0), d) THEN 1 ELSE IF RLt(d, R(0)) THEN -1 ELSE zs

\* qactor.py 92
ActionDirection(e) == IF Abs(e) <= 1 THEN e ELSE 0

\* qactor.py 88-95: the term one target variable adds to the vote
VoteTerm(action_effect, target, variable, zs) ==
    RMul(R(DesiredDirection(RSub(R(target[variable]), current_x[variable]), zs)
           * ActionDirection(action_effect[variable])),
         eta(variable, target[variable]))

RECURSIVE SumVotes(_, _, _, _)
SumVotes(action_effect, target, todo, zs) ==
    IF todo = {} THEN R(0)
    ELSE LET variable == CHOOSE z \in todo : TRUE
         IN  RAdd(VoteTerm(action_effect, target, variable, zs),
                  SumVotes(action_effect, target, todo \ {variable}, zs))

\* qactor.py 86-95
ActionVote(action_effect, target, zs) == SumVotes(action_effect, target, DOMAIN target, zs)

\* qactor.py 98-100
ActionRank(action) == Cardinality({c \in DOMAIN action : Abs(action[c]) = 1})

\* qactor.py 82-103: the list votes, one tuple per enumerated action
RECURSIVE VotesUpTo(_, _, _)
VotesUpTo(n, target, zs) ==
    IF n = 0 THEN <<>>
    ELSE Append(VotesUpTo(n - 1, target, zs),
                [action |-> model[n].action,
                 vote |-> ActionVote(model[n].effect, target, zs),
                 rank |-> ActionRank(model[n].action)])

Votes(target, zs) == VotesUpTo(Len(model), target, zs)

\* the sort key (vote, rank) of a is greater than that of b
KeyGt(a, b) == RLt(b.vote, a.vote) \/ (a.vote = b.vote /\ a.rank > b.rank)

\* Insert placing an element before those of equal key: the last of equals wins
RECURSIVE Insert_beforeEquals(_, _)
Insert_beforeEquals(s, e) ==
    IF s = <<>> THEN <<e>>
    ELSE IF ~KeyGt(Head(s), e) THEN <<e>> \o s
    ELSE <<Head(s)>> \o Insert_beforeEquals(Tail(s), e)

\* qactor.py 106: sorted(..., reverse=True) is stable, equal keys keep their order
RECURSIVE Insert(_, _)
Insert(s, e) ==
    IF s = <<>> THEN <<e>>
    ELSE IF KeyGt(e, Head(s)) THEN <<e>> \o s
    ELSE <<Head(s)>> \o Insert(Tail(s), e)

RECURSIVE sorted(_)
sorted(votes) ==
    IF votes = <<>> THEN <<>>
    ELSE Insert(sorted(SubSeq(votes, 1, Len(votes) - 1)), votes[Len(votes)])

\* act raises: KeyError at line 88 for a target variable without a position,
\* ZeroDivisionError inside eta, IndexError at line 109 for an empty list
ActRaises(target) ==
    \/ model = <<>>
    \/ \E variable \in DOMAIN target :
          \/ variable \notin DOMAIN current_x
          \/ eta(variable, target[variable])[2] = 0

\* qactor.py 77-109: the action returned, NoAction when the call raises
ActResult(target, zs) == IF ActRaises(target) THEN NoAction ELSE sorted(Votes(target, zs))[1].action

Restrict(f, D) == IF D = {} THEN EmptyDict ELSE [z \in D |-> f[z]]

\* act skipping the target variables that have no recorded position
act_skipping(target, zs) ==
    /\ steps < MaxSteps
    /\ prevOp' = lastOp
    /\ lastOp' = "act"
    /\ \E r \in {ActResult(Restrict(target, DOMAIN target \cap DOMAIN current_x), zs)} :
           /\ raised' = (r = NoAction)
           /\ ret' = r
    /\ lastTarget' = target
    /\ lastDt' = 1
    /\ steps' = steps + 1
    /\ UNCHANGED <<model, estimator, seen, dtValid>>

act(target, zs) ==
    /\ steps < MaxSteps
    /\ prevOp' = lastOp
    /\ lastOp' = "act"
    /\ \E r \in {ActResult(target, zs)} :
           /\ raised' = (r = NoAction)
           /\ ret' = r
    /\ lastTarget' = target
    /\ lastDt' = 1
    /\ steps' = steps + 1
    /\ UNCHANGED <<model, estimator, seen, dtValid>>

\* ---------------------------------------------------------- specification
\* qactor.py 5-7: the constructor stores the model and calls reset
Init ==
    /\ model \in Models
    /\ current_x = EmptyDict
    /\ current_v = EmptyDict
    /\ current_a = EmptyDict
    /\ max_v_pos = EmptyDict
    /\ max_v_neg = EmptyDict
    /\ max_a_pos = EmptyDict
    /\ max_a_neg = EmptyDict
    /\ prevOp = "init"
    /\ lastOp = "init"
    /\ raised = FALSE
    /\ lastDt = 1
    /\ dtValid = TRUE
    /\ lastTarget = EmptyDict
    /\ ret = NoAction
    /\ seen = Seen0
    /\ steps = 0

\* the actor driven as the examples drive it: every dt is positive
Next ==
    \/ reset
    \/ restart
    \/ \E numerical_state \in NumericalStates, dt \in 1..MaxDt : observe(numerical_state, dt)
    \/ \E target \in Targets, zs \in {-1, 1} : act(target, zs)

Spec == Init /\ [][Next]_vars

\* the estimator alone, fed any dt, on an actor built with the base QModel
InitEstimator == Init /\ model = QModel

NextEstimator ==
    \/ reset
    \/ restart
    \/ \E numerical_state \in NumericalStates, dt \in DtValues : observe(numerical_state, dt)

SpecEstimator == InitEstimator /\ [][NextEstimator]_vars

\* ------------------------------------------------------------ properties
Extrema == <<max_v_pos, max_v_neg, max_a_pos, max_a_neg>>
Positive(p) == p[2] > 0 /\ p[1] > 0
NonNegative(p) == p[2] > 0 /\ p[1] >= 0

\* every entry of m is still in m2, with a magnitude at least as large
Grown(m, m2) == \A z \in DOMAIN m : z \in DOMAIN m2 /\ RLe(m[z], m2[z])

\* C2: across every observe, restart and act step (every step but reset) each
\* of the four extrema of each variable stays present once present and does not
\* decrease in magnitude; a restart step leaves all four maps exactly as they were.
C2_ExtremaMonotone ==
    [][(lastOp' # "reset" =>
            /\ Grown(max_v_pos, max_v_pos')
            /\ Grown(max_v_neg, max_v_neg')
            /\ Grown(max_a_pos, max_a_pos')
            /\ Grown(max_a_neg, max_a_neg'))
       /\ (lastOp' = "restart" => UNCHANGED Extrema)]_vars

\* an observe call computed a velocity smaller than the learned extremum of its sign
C2_Witness ==
    /\ lastOp = "observe"
    /\ \E z \in DOMAIN current_v \cap DOMAIN max_v_pos :
          RLt(R(0), current_v[z]) /\ RLt(current_v[z], max_v_pos[z])

\* C3: a variable has a velocity only if at least two observe calls recorded
\* its position since the last reset or restart, an acceleration only if at
\* least three did; the variables with an acceleration are among those with a
\* velocity, which are among those with a position.
C3_DerivativesNeedSamples ==
    /\ \A z \in DOMAIN current_v : seen[z] >= 2
    /\ \A z \in DOMAIN current_a : seen[z] >= 3
    /\ DOMAIN current_a \subseteq DOMAIN current_v
    /\ DOMAIN current_v \subseteq DOMAIN current_x

\* one variable has been observed three times and has an acceleration, the
\* other once and has a position only
C3_Witness ==
    /\ \E z \in DOMAIN current_a : seen[z] = 3
    /\ \E z \in DOMAIN current_x : seen[z] = 1 /\ z \notin DOMAIN current_v

\* the velocity of the variable is within the learned extremum of its sign
WithinExtremum(z) ==
    /\ RLt(R(0), current_v[z]) => z \in DOMAIN max_v_pos /\ RLe(current_v[z], max_v_pos[z])
    /\ RLt(current_v[z], R(0)) => z \in DOMAIN max_v_neg /\ RLe(RNeg(current_v[z]), max_v_neg[z])

Mirrored(z, t) ==
    IF RLt(current_x[z], R(t))
    THEN [dist |-> RSub(R(t), current_x[z]), v0 |-> EtaV0(z), v1 |-> EtaV1Pos(z), acc |-> EtaAcc(z)]
    ELSE [dist |-> RSub(current_x[z], R(t)), v0 |-> RNeg(EtaV0(z)), v1 |-> EtaV1Neg(z), acc |-> EtaDcc(z)]

\* the goal is reached before the cruise speed: v0^2 + 2 acc dist <= v1^2
BelowCruise(m) ==
    RLe(RAdd(RMul(m.v0, m.v0), RMul(R(2), RMul(m.acc, m.dist))), RMul(m.v1, m.v1))

C5_InvalidDtRejected ==
    [][(lastOp' = "observe" /\ lastDt' <= 0 /\ ~raised') => UNCHANGED estimator]_vars

\* C8: a restart step removes every position, velocity and acceleration and
\* leaves the four extrema maps unchanged; a restart right after a restart
\* changes nothing of the estimator.
C8_RestartIdempotent ==
    [][lastOp' = "restart" =>
          /\ DOMAIN current_x' = {}
          /\ DOMAIN current_v' = {}
          /\ DOMAIN current_a' = {}
          /\ UNCHANGED Extrema
          /\ (lastOp = "restart" => UNCHANGED estimator)]_vars

\* two restarts in a row on an actor that has learned an extremum
C8_Witness ==
    /\ prevOp = "restart"
    /\ lastOp = "restart"
    /\ DOMAIN max_v_pos # {}
    /\ DOMAIN max_a_neg # {}

\* the state right after the single call observe({'x': 1.0}, dt=1.0) on a fresh actor
C9_Scenario ==
    /\ prevOp \in {"init", "reset"}
    /\ lastOp = "observe"
    /\ ~raised
    /\ lastDt = 1
    /\ DOMAIN current_x = {"x"}
    /\ current_x["x"] = R(1)

\* C9 (the claim as stated): in that state eta('x', 2.0) uses velocity 1.0 and
\* returns 1.0.
C9_Original ==
    C9_Scenario => (EtaV0("x") = R(1) /\ eta("x", 2) = R(1))

\* C9 (amended): in that state no velocity is recorded for x, eta('x', 2.0)
\* uses velocity 0 and the unit defaults of all four extrema, and returns 1.5.
C9_FirstSampleEta ==
    C9_Scenario =>
        /\ "x" \notin DOMAIN current_v
        /\ EtaV0("x") = R(0)
        /\ EtaV1Pos("x") = R(1) /\ EtaV1Neg("x") = R(1)
        /\ EtaAcc("x") = R(1) /\ EtaDcc("x") = R(1)
        /\ eta("x", 2) = <<3, 2>>

C9_Witness == C9_Scenario /\ steps = 1

\* C10: after observe calls with dt > 0 only, every stored extremum is
\* strictly positive, the cruise speed, acceleration and deceleration eta
\* passes on are never zero, and eta never divides by zero.
C10_ExtremaPositive ==
    dtValid =>
        /\ \A i \in 1..4 : \A z \in DOMAIN Extrema[i] : Positive(Extrema[i][z])
        /\ \A z \in DOMAIN current_x :
              /\ Positive(EtaV1Pos(z)) /\ Positive(EtaV1Neg(z))
              /\ Positive(EtaAcc(z)) /\ Positive(EtaDcc(z))
              /\ \A t \in TargetValues : eta(z, t) # ZeroDivision

\* a zero velocity and a zero acceleration were computed and nothing was stored
C10_Witness ==
    /\ dtValid
    /\ \E z \in DOMAIN current_a :
          /\ current_v[z] = R(0)
          /\ current_a[z] = R(0)
          /\ \A i \in 1..4 : z \notin DOMAIN Extrema[i]

\* the sign of a rational: -1, 0 or 1
Sign(p) == IF p[1] > 0 THEN 1 ELSE IF p[1] < 0 THEN -1 ELSE 0

\* the term of the vote of enumerated action i for variable z, as C1 states it
ClaimTerm(i, z) ==
    IF z \notin DOMAIN lastTarget THEN R(0)
    ELSE LET E == model[i].effect[z]
         IN  RMul(R(Sign(RSub(R(lastTarget[z]), current_x[z])) * (IF Abs(E) <= 1 THEN E ELSE 0)),
                  eta(z, lastTarget[z]))

ClaimVote(i) == RAdd(ClaimTerm(i, "x"), ClaimTerm(i, "v"))
ClaimRank(i) == Cardinality({c \in DOMAIN model[i].action : model[i].action[c] \in {-1, 1}})

\* the pair (vote, rank) of action i is lexicographically greater than that of j
ClaimGreater(i, j) ==
    \/ RLt(ClaimVote(j), ClaimVote(i))
    \/ (ClaimVote(i) = ClaimVote(j) /\ ClaimRank(i) > ClaimRank(j))

Answered == lastOp = "act" /\ DOMAIN lastTarget \subseteq DOMAIN current_x

\* C1: when the action list is not empty and every target variable has a
\* position, act returns without raising the earliest enumerated action among
\* those whose pair (vote, rank) is lexicographically greatest: no action has
\* a greater pair, and every action enumerated before it has a smaller one.
C1_ActPicksBest ==
    (Answered /\ Len(model) > 0) =>
        /\ ~raised
        /\ \E i \in 1..Len(model) :
              /\ ret = model[i].action
              /\ \A j \in 1..Len(model) :
                    /\ ~ClaimGreater(j, i)
                    /\ (j < i => ClaimGreater(i, j))

\* act returned an action that ties in vote with an action enumerated before
\* it and wins on rank, for a target of two variables one of which is off target
C1_Witness ==
    /\ Answered
    /\ ~raised
    /\ DOMAIN lastTarget = Variables
    /\ \E z \in Variables : current_x[z] # R(lastTarget[z])
    /\ \E i \in 1..Len(model) : \E j \in 1..Len(model) :
          /\ i < j
          /\ ret = model[j].action
          /\ ClaimVote(i) = ClaimVote(j)
          /\ ClaimRank(i) < ClaimRank(j)

\* C6: an act call whose target names a variable without a recorded position
\* raises, returns no action and leaves the estimator unchanged.
C6_ActRejectsUnobserved ==
    [][(lastOp' = "act" /\ \E z \in DOMAIN lastTarget' : z \notin DOMAIN current_x) =>
          /\ raised'
          /\ ret' = NoAction
          /\ UNCHANGED estimator]_vars

\* act with a non-empty target right after a restart of an actor that has
\* learned an extremum, on a model that enumerates actions
C6_Witness ==
    /\ prevOp = "restart"
    /\ lastOp = "act"
    /\ raised
    /\ Len(model) > 0
    /\ DOMAIN lastTarget # {}
    /\ DOMAIN max_v_pos # {}

\* the target variables whose position equals their target value
AtTarget == {z \in DOMAIN lastTarget : current_x[z] = R(lastTarget[z])}

\* C7: for a target variable at its target value eta is exactly 0, its term in
\* the vote of every enumerated action is exactly 0 whichever sign a zero
\* difference gets, and act returns what it returns for the target without
\* these variables.
C7_AtTargetNoPreference ==
    Answered =>
        /\ \A z \in AtTarget :
              /\ eta(z, lastTarget[z]) = R(0)
              /\ \A i \in 1..Len(model) : \A zs \in {-1, 1} :
                    VoteTerm(model[i].effect, lastTarget, z, zs) = R(0)
        /\ \A zs \in {-1, 1} :
              ret = ActResult(Restrict(lastTarget, DOMAIN lastTarget \ AtTarget), zs)

\* act answered for a target with one variable at its value, moving, and
\* affected by some action, and another variable off its value
C7_Witness ==
    /\ Answered
    /\ ~raised
    /\ \E z \in AtTarget :
          /\ z \in DOMAIN current_v
          /\ current_v[z] # R(0)
          /\ \E i \in 1..Len(model) : model[i].effect[z] \in {-1, 1}
    /\ DOMAIN lastTarget \ AtTarget # {}

====
